---- MODULE Spec2Model ----
(***************************************************************************)
(* Model of package cmds (src/cmds.go): a tree of Commands, each with its  *)
(* own flag.FlagSet, resolved by Command.parse and run by                  *)
(* Command.ParseRun, with the command-level ErrorHandling applied by       *)
(* handleError.                                                            *)
(*                                                                         *)
(* A process is a record (the tree, its flag sets, and the position of the *)
(* dispatch in progress).  Under SpecEH two processes are run side by side *)
(* on the same arguments: proc, and twin, whose tree differs from proc's   *)
(* in the ErrorHandling of non-root nodes only; under Spec there is no     *)
(* twin.                                                                   *)
(***************************************************************************)
EXTENDS Integers, Sequences, FiniteSets, TLC

VARIABLES proc, twin

vars == <<proc, twin>>

(***************************** bounds **************************************)
\* longest argument list handed to a dispatch under Spec / SpecEH
MaxArgs == 3
\* longest run of flag tokens on either side of the selector (SpecArgsCmd)
MaxFlagToks == 2
\* longest list of positional tokens (SpecArgsCmd)
MaxPos == 2

(***************************** errors **************************************)
\* An error value: its message parts and the identities errors.Is finds in
\* its wrap tree.
nil == [msg |-> <<>>, wraps |-> {}]

errorsNew(text) == [msg |-> <<text>>, wraps |-> {text}]

\* fmt.Errorf("%w: %w", a, b)
Errorf2(a, b) == [msg |-> a.msg \o b.msg, wraps |-> a.wraps \cup b.wraps]

errorsIs(err, target) == target.wraps # {} /\ target.wraps \subseteq err.wraps

Err == errorsNew("command error")

ErrCmd == errorsNew("command parse error")

ErrFlag == errorsNew("flag parse error")

\* errRun of TestErrReturn: the error a Runner returns
errRun == errorsNew("run error")

ReturnOnError == 0

ExitOnError == 1

PanicOnError == 2

ErrorHandlings == {ReturnOnError, ExitOnError, PanicOnError}

(***************************** package flag ********************************)
\* flag.ErrorHandling
ContinueOnError == "flag.ContinueOnError"

FlagExitOnError == "flag.ExitOnError"

FlagPanicOnError == "flag.PanicOnError"

\* flag.ErrHelp
ErrHelp == errorsNew("flag: help requested")

\* How flag.FlagSet.parseOne reads one token: a word (no leading "-", or
\* shorter than two characters), the terminator "--", or a flag with its
\* name and an optional =value.
Lex(s) ==
  CASE s = "-c"       -> [syntax |-> "flag", name |-> "c", hasValue |-> FALSE, value |-> ""]
    [] s = "-d"       -> [syntax |-> "flag", name |-> "d", hasValue |-> FALSE, value |-> ""]
    [] s = "-a"       -> [syntax |-> "flag", name |-> "a", hasValue |-> FALSE, value |-> ""]
    [] s = "-m"       -> [syntax |-> "flag", name |-> "m", hasValue |-> FALSE, value |-> ""]
    [] s = "-z"       -> [syntax |-> "flag", name |-> "z", hasValue |-> FALSE, value |-> ""]
    [] s = "-h"       -> [syntax |-> "flag", name |-> "h", hasValue |-> FALSE, value |-> ""]
    [] s = "-c=false" -> [syntax |-> "flag", name |-> "c", hasValue |-> TRUE, value |-> "false"]
    [] s = "--"       -> [syntax |-> "terminator", name |-> "", hasValue |-> FALSE, value |-> ""]
    [] OTHER          -> [syntax |-> "word", name |-> "", hasValue |-> FALSE, value |-> ""]

\* A Command whose Flags field is nil.
NilFlags ==
  [isNil |-> TRUE, name |-> "", errorHandling |-> ContinueOnError,
   formal |-> <<>>, value |-> <<>>, parsed |-> FALSE]

\* flag.NewFlagSet(name, errorHandling): no flags defined.
NewFlagSet(name, errorHandling) ==
  [isNil |-> FALSE, name |-> name, errorHandling |-> errorHandling,
   formal |-> <<>>, value |-> <<>>, parsed |-> FALSE]

\* fset.BoolVar / fset.StringVar: defines a flag and stores its default in
\* the bound variable.
DefineFlag(fs, name, isBool, def) ==
  [fs EXCEPT !.formal = (name :> [isBool |-> isBool, def |-> def]) @@ fs.formal,
             !.value = (name :> def) @@ fs.value]

\* Flag.Value.Set on the bound variable.
SetFlag(fs, name, v) == [fs EXCEPT !.value = (name :> v) @@ fs.value]

\* The loop of FlagSet.Parse over parseOne: the flag set, the arguments
\* left (FlagSet.Args), the flags this call set with their values, and the
\* error.
RECURSIVE parseLoop(_, _, _)
parseLoop(fs, arguments, seen) ==
  IF arguments = <<>> THEN [fs |-> fs, args |-> <<>>, seen |-> seen, err |-> nil]
  ELSE
    LET s == Head(arguments)
        lx == Lex(s)
        rest == Tail(arguments)
    IN
    CASE lx.syntax = "word" -> [fs |-> fs, args |-> arguments, seen |-> seen, err |-> nil]
      [] lx.syntax = "terminator" -> [fs |-> fs, args |-> rest, seen |-> seen, err |-> nil]
      [] OTHER ->
          IF lx.name \notin DOMAIN fs.formal
          THEN [fs |-> fs, args |-> rest, seen |-> seen,
                err |-> IF lx.name = "h" THEN ErrHelp
                        ELSE errorsNew("flag provided but not defined")]
          ELSE IF fs.formal[lx.name].isBool
          THEN LET v == IF lx.hasValue THEN lx.value ELSE "true" IN
               parseLoop(SetFlag(fs, lx.name, v), rest, (lx.name :> v) @@ seen)
          ELSE IF lx.hasValue
          THEN parseLoop(SetFlag(fs, lx.name, lx.value), rest, (lx.name :> lx.value) @@ seen)
          ELSE IF rest # <<>>
          THEN parseLoop(SetFlag(fs, lx.name, Head(rest)), Tail(rest),
                         (lx.name :> Head(rest)) @@ seen)
          ELSE [fs |-> fs, args |-> rest, seen |-> seen,
                err |-> errorsNew("flag needs an argument")]

\* Flags.Parse putting every flag back to its default before it parses.
FlagSetParse_reset(fs, arguments) ==
  LET r == parseLoop([fs EXCEPT !.parsed = TRUE,
                                !.value = [f \in DOMAIN fs.formal |-> fs.formal[f].def]],
                     arguments, <<>>)
  IN
  [fs |-> r.fs, args |-> r.args, seen |-> r.seen, err |-> r.err,
   effect |-> IF r.err = nil \/ fs.errorHandling = ContinueOnError THEN "none"
              ELSE IF fs.errorHandling = FlagExitOnError THEN "exit"
              ELSE "panic",
   code |-> IF r.err = ErrHelp THEN 0 ELSE 2]

\* cmd.Flags.Parse(args) followed by cmd.Flags.Args(): the flag set after
\* the call, the arguments left, the error Parse returns, and what the flag
\* set's own ErrorHandling did with the error ("none", "exit" with a code,
\* or "panic").
FlagSetParse(fs, arguments) ==
  LET r == parseLoop([fs EXCEPT !.parsed = TRUE], arguments, <<>>) IN
  [fs |-> r.fs, args |-> r.args, seen |-> r.seen, err |-> r.err,
   effect |-> IF r.err = nil \/ fs.errorHandling = ContinueOnError THEN "none"
              ELSE IF fs.errorHandling = FlagExitOnError THEN "exit"
              ELSE "panic",
   code |-> IF r.err = ErrHelp THEN 0 ELSE 2]

(***************************** Command *************************************)
Nodes == {"root", "n1", "n2", "n3", "n4"}

\* a nil *Command
NoCmd == "nil"

\* type Command struct: Name, Flags, ErrorHandling, Runner, Commands
\* (a Runner is "nil", "nopRunner" or "errRunner")
Command(name, flags, errorHandling, runner, commands) ==
  [Name |-> name, Flags |-> flags, ErrorHandling |-> errorHandling,
   Runner |-> runner, Commands |-> commands]

\* a node that is not part of the tree
Unused == Command("", NilFlags, ReturnOnError, "nil", <<>>)

\* nopRunner: returns nil.  The Runner of TestErrReturn: returns errRun when
\* its first argument is "error".
RunnerCall(runner, args) ==
  IF runner = "errRunner" /\ Len(args) > 0 /\ args[1] = "error" THEN errRun ELSE nil

\* TestCmdNoFlags: root -> sub0, sub1; no Flags anywhere; the Runners are
\* nil at first and attached later.
TreeCmdNoFlags(runner0, runner1) ==
  [n \in Nodes |->
     CASE n = "root" -> Command("", NilFlags, ReturnOnError, "nil", <<"n1", "n2">>)
       [] n = "n1" -> Command("sub0", NilFlags, ReturnOnError, runner0, <<>>)
       [] n = "n2" -> Command("sub1", NilFlags, ReturnOnError, runner1, <<>>)
       [] OTHER -> Unused]

\* TestArgsCmd / TestFlagsCmd: root with bool flag c, child sub with bool
\* flag d, and a sibling with a bool flag d of its own.
TreeArgsCmd ==
  [n \in Nodes |->
     CASE n = "root" ->
            Command("", DefineFlag(NewFlagSet("test", ContinueOnError), "c", TRUE, "false"),
                    ReturnOnError, "nil", <<"n1", "n2">>)
       [] n = "n1" ->
            Command("sub", DefineFlag(NewFlagSet("sub", ContinueOnError), "d", TRUE, "false"),
                    ReturnOnError, "nopRunner", <<>>)
       [] n = "n2" ->
            Command("sub1", DefineFlag(NewFlagSet("test", ContinueOnError), "d", TRUE, "false"),
                    ReturnOnError, "nopRunner", <<>>)
       [] OTHER -> Unused]

\* TestErrReturn: root with bool flag a, child sub without Flags whose
\* Runner may fail.
TreeErrReturn(flagErrorHandling) ==
  [n \in Nodes |->
     CASE n = "root" ->
            Command("", DefineFlag(NewFlagSet("test", flagErrorHandling), "a", TRUE, "false"),
                    ReturnOnError, "nil", <<"n1">>)
       [] n = "n1" -> Command("sub", NilFlags, ReturnOnError, "errRunner", <<>>)
       [] OTHER -> Unused]

\* TestFlagsSimple / TestArgs / TestRunnerNil: a root without Commands, with
\* a bool flag a and a string flag m.
TreeFlagsSimple(runner) ==
  [n \in Nodes |->
     CASE n = "root" ->
            Command("",
                    DefineFlag(DefineFlag(NewFlagSet("test", ContinueOnError),
                                          "a", TRUE, "false"), "m", FALSE, "GET"),
                    ReturnOnError, runner, <<>>)
       [] OTHER -> Unused]

\* The example program (root prog with sub-commands), one level deeper: a
\* named root, a child req with a sub-command of its own, and a child that
\* carries the root's name and has a sub-command too.
TreeDeep ==
  [n \in Nodes |->
     CASE n = "root" ->
            Command("prog", DefineFlag(NewFlagSet("prog", ContinueOnError), "c", TRUE, "false"),
                    ReturnOnError, "nopRunner", <<"n1", "n2">>)
       [] n = "n1" ->
            Command("req", DefineFlag(NewFlagSet("req", ContinueOnError), "m", FALSE, "GET"),
                    ReturnOnError, "nopRunner", <<"n3">>)
       [] n = "n2" -> Command("prog", NilFlags, ReturnOnError, "nopRunner", <<"n4">>)
       [] n = "n3" -> Command("get", NilFlags, ReturnOnError, "nopRunner", <<>>)
       [] OTHER -> Command("get", NilFlags, ReturnOnError, "nopRunner", <<>>)]

\* Find returning the receiver.
Find_self(cmds, cmd, name) == cmd

\* Find picking the first sub-command whatever its Name.
Find_first(cmds, cmd, name) ==
  IF cmds[cmd].Commands = <<>> THEN NoCmd ELSE Head(cmds[cmd].Commands)

\* cmd.Find(name): the first sub-command with that Name, or nil.
RECURSIVE findIn(_, _, _)
findIn(cmds, commands, name) ==
  IF commands = <<>> THEN NoCmd
  ELSE IF cmds[Head(commands)].Name = name THEN Head(commands)
  ELSE findIn(cmds, Tail(commands), name)

Find(cmds, cmd, name) == findIn(cmds, cmds[cmd].Commands, name)

(***************************** dispatch ************************************)
\* What a dispatch has produced so far: nothing yet ("none"), the values
\* returned to the caller ("return"), os.Exit(code) ("exit") or a panic
\* carrying err ("panic"); at names the call that exited or panicked.
NoResult ==
  [kind |-> "none", leaf |-> NoCmd, args |-> <<>>, err |-> nil, code |-> 0, at |-> ""]

Returned(leaf, args, err) ==
  [kind |-> "return", leaf |-> leaf, args |-> args, err |-> err, code |-> 0, at |-> ""]

Exited(code, err, at) ==
  [kind |-> "exit", leaf |-> NoCmd, args |-> <<>>, err |-> err, code |-> code, at |-> at]

Panicked(err, at) ==
  [kind |-> "panic", leaf |-> NoCmd, args |-> <<>>, err |-> err, code |-> 0, at |-> at]

\* handleError that does not wrap the package's errors in Err.
handleError_nowrap(err, errorHandling) ==
  CASE errorHandling = ExitOnError ->
         Exited(IF errorsIs(err, ErrCmd) THEN 3 ELSE IF errorsIs(err, ErrFlag) THEN 2 ELSE 1,
                err, "handleError")
    [] errorHandling = PanicOnError -> Panicked(err, "handleError")
    [] OTHER -> Returned(NoCmd, <<>>, err)

\* handleError with the exit codes of ErrCmd and ErrFlag exchanged.
handleError_swapped(err, errorHandling) ==
  LET e == IF errorsIs(err, ErrCmd) \/ errorsIs(err, ErrFlag) THEN Errorf2(Err, err) ELSE err IN
  CASE errorHandling = ExitOnError ->
         Exited(IF errorsIs(e, ErrCmd) THEN 2 ELSE IF errorsIs(e, ErrFlag) THEN 3 ELSE 1,
                e, "handleError")
    [] errorHandling = PanicOnError -> Panicked(e, "handleError")
    [] OTHER -> Returned(NoCmd, <<>>, e)

\* handleError(err, errorHandling)
handleError(err, errorHandling) ==
  LET e == IF errorsIs(err, ErrCmd) \/ errorsIs(err, ErrFlag) THEN Errorf2(Err, err) ELSE err IN
  CASE errorHandling = ExitOnError ->
         Exited(IF errorsIs(e, ErrCmd) THEN 3 ELSE IF errorsIs(e, ErrFlag) THEN 2 ELSE 1,
                e, "handleError")
    [] errorHandling = PanicOnError -> Panicked(e, "handleError")
    [] OTHER -> Returned(NoCmd, <<>>, e)

\* The ErrorHandling of the node the descent has reached, not the receiver's.
cmdErrorHandling_current(p) ==
  p.cmds[IF p.leafCmd # NoCmd THEN p.leafCmd ELSE p.cmd].ErrorHandling

\* cmd.ErrorHandling in Parse and ParseRun: cmd is the receiver, the node the
\* dispatch was called on.
cmdErrorHandling(p) == p.cmds["root"].ErrorHandling

\* A process before its first dispatch.  Beside the program's state it
\* records the dispatch in progress: argv, the arguments it was called with;
\* pre, the flag values when it was called; visited, for each iteration of
\* parse the node, the arguments handed to its flag set and the arguments
\* left; seen, the flags each node's flag set has set; ran, the Runner calls.
\* first tells whether the dispatch in
\* progress is the first one on the tree, used whether there has been one.
NewProc(tree, cmds) ==
  [tree |-> tree, cmds |-> cmds, pc |-> "idle", entry |-> "", rootCmd |-> NoCmd, cmd |-> NoCmd,
   args |-> <<>>, leafCmd |-> NoCmd, err |-> nil, result |-> NoResult,
   argv |-> <<>>, pre |-> [n \in Nodes |-> cmds[n].Flags.value],
   seen |-> [n \in Nodes |-> <<>>], visited |-> <<>>, ran |-> <<>>, first |-> TRUE, used |-> FALSE]

\* The caller calls cmd.Parse(args) or cmd.ParseRun(args) on the root
\* (entry names which); both begin with cmd.parse(args) at rootCmd := cmd.
Call(p, entry, args) ==
  [p EXCEPT !.pc = "parse", !.entry = entry, !.rootCmd = "root", !.cmd = "root",
            !.args = args, !.leafCmd = NoCmd, !.err = nil, !.result = NoResult,
            !.argv = args, !.pre = [n \in Nodes |-> p.cmds[n].Flags.value],
            !.seen = [n \in Nodes |-> <<>>], !.visited = <<>>, !.ran = <<>>,
            !.first = ~p.used, !.used = TRUE]

\* parse, lines 117-126: the node's FlagSet, created when Flags is nil.
ensureFlags(p) ==
  IF p.cmds[p.cmd].Flags.isNil
  THEN NewFlagSet(p.cmds[p.cmd].Name,
                  IF ~p.cmds[p.rootCmd].Flags.isNil
                  THEN p.cmds[p.rootCmd].Flags.errorHandling
                  ELSE FlagExitOnError)
  ELSE p.cmds[p.cmd].Flags

\* parse that never drops the selector token.
dropSelector_never(p) == p.args

\* parse, lines 128-130: the selector token is dropped.
dropSelector(p) ==
  IF p.cmds[p.cmd].Name # p.cmds[p.rootCmd].Name /\ Len(p.args) > 0
  THEN Tail(p.args) ELSE p.args

\* parse that ignores the error of Flags.Parse.
flagsFailed_never(r) == FALSE

\* parse, line 132: err != nil
flagsFailed(r) == r.err # nil

\* parse returns (leafCmd, args, err) to Parse.
parseReturn(p, leafCmd, args, err) ==
  [p EXCEPT !.pc = "Parse", !.leafCmd = leafCmd, !.args = args, !.err = err]

\* One iteration of the loop of parse (lines 117-155).
parseIter(p) ==
  LET r == FlagSetParse(ensureFlags(p), dropSelector(p))
      q == [p EXCEPT !.cmds[p.cmd].Flags = r.fs, !.seen[p.cmd] = r.seen,
                     !.visited = Append(p.visited, [cmd |-> p.cmd,
                                                    handed |-> dropSelector(p),
                                                    left |-> r.args])]
      args == r.args
      next == Find(p.cmds, p.cmd, args[1])
  IN
  IF r.effect = "exit" THEN [q EXCEPT !.pc = "done", !.result = Exited(r.code, r.err, "flag.Parse")]
  ELSE IF r.effect = "panic" THEN [q EXCEPT !.pc = "done", !.result = Panicked(r.err, "flag.Parse")]
  ELSE IF flagsFailed(r) THEN parseReturn(q, NoCmd, <<>>, Errorf2(ErrFlag, r.err))
  ELSE IF Len(p.cmds[p.cmd].Commands) = 0 THEN parseReturn(q, p.cmd, args, nil)
  ELSE IF Len(args) = 0
  THEN parseReturn(q, NoCmd, <<>>,
                   Errorf2(ErrCmd, IF p.cmds[p.cmd].Name = p.cmds[p.rootCmd].Name
                                   THEN errorsNew("missing command")
                                   ELSE errorsNew("missing command for")))
  ELSE IF next = NoCmd
  THEN parseReturn(q, NoCmd, <<>>, Errorf2(ErrCmd, errorsNew("no such command")))
  ELSE [q EXCEPT !.cmd = next, !.args = args]

\* Parse, lines 85-90, after parse has returned.
ParseRet(p) ==
  LET h == handleError(p.err, cmdErrorHandling(p))
      ret == IF p.err # nil THEN Returned(NoCmd, <<>>, h.err)
             ELSE Returned(p.leafCmd, p.args, p.err)
  IN
  IF p.err # nil /\ h.kind # "return" THEN [p EXCEPT !.pc = "done", !.result = h]
  ELSE IF p.entry = "Parse" THEN [p EXCEPT !.pc = "done", !.result = ret]
  ELSE [p EXCEPT !.pc = "ParseRun", !.leafCmd = ret.leaf, !.args = ret.args, !.err = ret.err]

\* ParseRun, lines 101-111, after Parse has returned.
ParseRunRet(p) ==
  LET h == handleError(Errorf2(ErrCmd, errorsNew("nil runner")), cmdErrorHandling(p)) IN
  IF p.err # nil THEN [p EXCEPT !.pc = "done", !.result = Returned(NoCmd, <<>>, p.err)]
  ELSE IF p.cmds[p.leafCmd].Runner = "nil"
  THEN [p EXCEPT !.pc = "done",
                 !.result = IF h.kind = "return" THEN Returned(NoCmd, <<>>, h.err) ELSE h]
  ELSE [p EXCEPT !.pc = "done",
                 !.ran = Append(p.ran, [cmd |-> p.leafCmd, args |-> p.args]),
                 !.result = Returned(NoCmd, <<>>,
                                     RunnerCall(p.cmds[p.leafCmd].Runner, p.args))]

\* The next step of a process, by its position.
Step(p) ==
  CASE p.pc = "parse" -> parseIter(p)
    [] p.pc = "Parse" -> ParseRet(p)
    [] p.pc = "ParseRun" -> ParseRunRet(p)
    [] OTHER -> p

\* The caller has the returned values and goes on to its next dispatch.
Resume(p) ==
  [p EXCEPT !.pc = "idle", !.entry = "", !.rootCmd = NoCmd, !.cmd = NoCmd, !.args = <<>>,
            !.leafCmd = NoCmd, !.err = nil, !.result = NoResult, !.argv = <<>>,
            !.pre = [n \in Nodes |-> p.cmds[n].Flags.value],
            !.seen = [n \in Nodes |-> <<>>], !.visited = <<>>, !.ran = <<>>]

(***************************** inputs **************************************)
\* The trees dispatched on, by label.
TreeLabels ==
  {"CmdNoFlags", "CmdNoFlagsRunners", "ArgsCmd", "TestArgsCmd", "ErrReturn",
   "ErrReturnPanic", "FlagsSimple", "Deep"}

TreeOf(label) ==
  CASE label = "CmdNoFlags" -> TreeCmdNoFlags("nopRunner", "nil")
    [] label = "CmdNoFlagsRunners" -> TreeCmdNoFlags("nopRunner", "nopRunner")
    [] label \in {"ArgsCmd", "TestArgsCmd"} -> TreeArgsCmd
    [] label = "ErrReturn" -> TreeErrReturn(ContinueOnError)
    [] label = "ErrReturnPanic" -> TreeErrReturn(FlagPanicOnError)
    [] label = "FlagsSimple" -> TreeFlagsSimple("nopRunner")
    [] OTHER -> TreeDeep

\* The tokens an argument list for a tree is made of: its nodes' names, its
\* flags, and tokens that name nothing in it.
TokensOf(label) ==
  CASE label \in {"CmdNoFlags", "CmdNoFlagsRunners"} -> {"sub0", "sub1", "sub2", "-z", "--"}
    [] label = "ArgsCmd" -> {"-c", "-d", "sub", "a", "-c=false"}
    [] label \in {"ErrReturn", "ErrReturnPanic"} -> {"sub", "error", "invalid", "-a", "-z"}
    [] label = "FlagsSimple" -> {"-a", "-m", "a", "-h", "--"}
    [] OTHER -> {"prog", "req", "get", "-m", "-c"}

SeqsUpTo(S, n) == UNION {[1..k -> S] : k \in 0..n}

\* The argument lists of TestArgsCmd: flag tokens of the root, the selector,
\* flag tokens of the child, positional tokens.
ArgsCmdArgs ==
  {rf \o <<"sub">> \o cf \o pos :
     rf \in SeqsUpTo({"-c"}, MaxFlagToks), cf \in SeqsUpTo({"-d"}, MaxFlagToks),
     pos \in SeqsUpTo({"a", "b", "sub"}, MaxPos)}

ArgsOf(label) ==
  IF label = "TestArgsCmd" THEN ArgsCmdArgs ELSE SeqsUpTo(TokensOf(label), MaxArgs)

WithErrorHandling(cmds, root, others) ==
  [n \in Nodes |-> [cmds[n] EXCEPT !.ErrorHandling = IF n = "root" THEN root ELSE others]]

(***************************** specification *******************************)
\* no second process
NoTwin == [pc |-> "off"]

\* the twin takes the step t, when there is a twin
Twin(t) == IF twin.pc = "off" THEN twin ELSE t

Init ==
  \E label \in TreeLabels, eh \in ErrorHandlings :
    /\ proc = NewProc(label, WithErrorHandling(TreeOf(label), eh, ReturnOnError))
    /\ twin = NoTwin

\* the caller calls cmd.ParseRun(args)
ParseRun ==
  /\ proc.pc = "idle"
  /\ \E args \in ArgsOf(proc.tree) :
       /\ proc' = Call(proc, "ParseRun", args)
       /\ twin' = Twin(Call(twin, "ParseRun", args))

\* the caller calls cmd.Parse(args)
Parse ==
  /\ proc.pc = "idle"
  /\ \E args \in ArgsOf(proc.tree) :
       /\ proc' = Call(proc, "Parse", args)
       /\ twin' = Twin(Call(twin, "Parse", args))

\* one iteration of the loop of cmd.parse
parse ==
  /\ proc.pc = "parse"
  /\ proc' = parseIter(proc)
  /\ twin' = Twin(Step(twin))

\* cmd.parse has returned to Parse
ParseReturns ==
  /\ proc.pc = "Parse"
  /\ proc' = ParseRet(proc)
  /\ twin' = Twin(Step(twin))

\* Parse has returned to ParseRun
ParseRunReturns ==
  /\ proc.pc = "ParseRun"
  /\ proc' = ParseRunRet(proc)
  /\ twin' = Twin(Step(twin))

\* the dispatch has returned to the caller, which goes on
Again ==
  /\ proc.pc = "done"
  /\ proc.result.kind = "return"
  /\ proc' = Resume(proc)
  /\ twin' = Twin(Resume(twin))

Next ==
  \/ ParseRun
  \/ Parse
  \/ parse
  \/ ParseReturns
  \/ ParseRunReturns
  \/ Again

Spec == Init /\ [][Next]_vars

\* The twin's tree differs from proc's in the ErrorHandling of every node
\* but the root.
InitEH ==
  \E label \in TreeLabels, eh \in ErrorHandlings, others \in {ExitOnError, PanicOnError} :
    /\ proc = NewProc(label, WithErrorHandling(TreeOf(label), eh, ReturnOnError))
    /\ twin = NewProc(label, WithErrorHandling(TreeOf(label), eh, others))

SpecEH == InitEH /\ [][Next]_vars

(***************************** claims **************************************)
IsWord(t) == Lex(t).syntax = "word"

AllWords(a) == \A i \in 1..Len(a) : IsWord(a[i])

\* the sub-commands of node n that carry the name t
ChildrenNamed(p, n, t) ==
  {c \in Nodes : (\E i \in 1..Len(p.cmds[n].Commands) : p.cmds[n].Commands[i] = c)
                 /\ p.cmds[c].Name = t}

IsCommandError(err) ==
  errorsIs(err, Err) /\ errorsIs(err, ErrCmd) /\ ~errorsIs(err, ErrFlag)

IsFlagError(err) ==
  errorsIs(err, Err) /\ errorsIs(err, ErrFlag) /\ ~errorsIs(err, ErrCmd)

\* the dispatch ended without a resolved leaf and with a command-error
FailsWithCommandError(p) ==
  p.result.kind # "none" /\ p.result.leaf = NoCmd /\ IsCommandError(p.result.err)

\* C1: on the tree root -> sub0, sub1 without flags, ParseRun fails with a
\* command-error and runs no handler for empty args, for a first word that
\* names no child, and for a word that names a child with a nil handler; when
\* the named child has a handler, ParseRun runs that handler exactly once,
\* with the tokens after the selector (none for a single token), and runs no
\* other handler.  The argument lists meant are words, not flag syntax.
C1_NoFlagsDispatch ==
  (proc.tree \in {"CmdNoFlags", "CmdNoFlagsRunners"} /\ proc.pc = "done"
     /\ proc.entry = "ParseRun") =>
    LET a == proc.argv
        named == IF a = <<>> THEN {} ELSE ChildrenNamed(proc, "root", a[1])
    IN
    /\ (a = <<>> \/ (a # <<>> /\ IsWord(a[1]) /\ named = {})) =>
         (FailsWithCommandError(proc) /\ proc.ran = <<>>)
    /\ (a # <<>> /\ AllWords(a)) =>
         \A n \in named :
           IF proc.cmds[n].Runner = "nil"
           THEN FailsWithCommandError(proc) /\ proc.ran = <<>>
           ELSE /\ proc.ran = <<[cmd |-> n, args |-> Tail(a)]>>
                /\ proc.result = Returned(NoCmd, <<>>, nil)

C1_Witness ==
  /\ proc.tree = "CmdNoFlagsRunners" /\ proc.pc = "done" /\ proc.entry = "ParseRun"
  /\ proc.argv = <<"sub1">>
  /\ proc.ran = <<[cmd |-> "n2", args |-> <<>>]>>

\* the index of the first token of a equal to t (0 when there is none)
IndexOf(a, t) ==
  IF \E i \in 1..Len(a) : a[i] = t
  THEN CHOOSE i \in 1..Len(a) : a[i] = t /\ \A j \in 1..(i - 1) : a[j] # t
  ELSE 0

\* how many tokens at the head of a are equal to t
LeadingRun(a, t) ==
  CHOOSE k \in 0..Len(a) :
    (\A j \in 1..k : a[j] = t) /\ (k = Len(a) \/ a[k + 1] # t)

\* C2: for the root with bool flag c and the leaf child sub with bool flag d,
\* a first dispatch of (root flag tokens) ++ [sub] ++ (child flag tokens) ++
\* (positional tokens) resolves to sub with exactly the positional tokens as
\* final args; c is true iff -c occurs before the selector, d is true iff -d
\* occurs after it, and the flags of the nodes off the path keep their values.
C2_FlagsAroundSelector ==
  (proc.tree = "TestArgsCmd" /\ proc.pc = "done" /\ proc.first) =>
    LET a == proc.argv
        sel == IndexOf(a, "sub")
        after == SubSeq(a, sel + 1, Len(a))
        k == LeadingRun(after, "-d")
        pos == SubSeq(after, k + 1, Len(after))
    IN
    /\ IF proc.entry = "Parse"
       THEN proc.result = Returned("n1", pos, nil)
       ELSE /\ proc.ran = <<[cmd |-> "n1", args |-> pos]>>
            /\ proc.result = Returned(NoCmd, <<>>, nil)
    /\ (proc.cmds["root"].Flags.value["c"] = "true") <=> (\E j \in 1..(sel - 1) : a[j] = "-c")
    /\ (proc.cmds["n1"].Flags.value["d"] = "true") <=> (k > 0)
    /\ proc.cmds["root"].Flags.value["c"] \in {"true", "false"}
    /\ proc.cmds["n1"].Flags.value["d"] \in {"true", "false"}
    /\ \A n \in Nodes \ {"root", "n1"} : proc.cmds[n].Flags = TreeArgsCmd[n].Flags

C2_Witness ==
  /\ proc.tree = "TestArgsCmd" /\ proc.pc = "done" /\ proc.first /\ proc.entry = "Parse"
  /\ proc.argv = <<"-c", "sub", "-d", "a", "b">>
  /\ proc.result = Returned("n1", <<"a", "b">>, nil)
  /\ proc.cmds["root"].Flags.value["c"] = "true"
  /\ proc.cmds["n1"].Flags.value["d"] = "true"

\* the last part of an error's message: what went wrong
Cause(err) == err.msg[Len(err.msg)]

FlagCauses ==
  {"flag provided but not defined", "flag needs an argument", "flag: help requested"}

CommandCauses == {"missing command", "missing command for", "no such command", "nil runner"}

\* C3: under root policy ReturnOnError a non-nil error returned by ParseRun
\* is exactly one of: a flag-error (Err and ErrFlag, not ErrCmd), when a flag
\* set rejected its arguments; a command-error (Err and ErrCmd, not ErrFlag),
\* for a missing or unknown sub-command or a nil handler; or the handler's own
\* error, unchanged and none of Err, ErrCmd, ErrFlag.
C3_ErrorClasses ==
  (proc.pc = "done" /\ proc.entry = "ParseRun" /\ proc.result.kind = "return"
     /\ proc.cmds["root"].ErrorHandling = ReturnOnError /\ proc.result.err # nil) =>
    LET e == proc.result.err IN
    /\ IF proc.ran # <<>>
       THEN /\ e = RunnerCall(proc.cmds[proc.ran[1].cmd].Runner, proc.ran[1].args)
            /\ e = errRun
            /\ ~errorsIs(e, Err) /\ ~errorsIs(e, ErrCmd) /\ ~errorsIs(e, ErrFlag)
       ELSE IsFlagError(e) \/ IsCommandError(e)
    /\ IsFlagError(e) <=> Cause(e) \in FlagCauses
    /\ IsCommandError(e) <=> Cause(e) \in CommandCauses
    /\ ~(IsFlagError(e) /\ IsCommandError(e))

C3_Witness ==
  /\ proc.pc = "done" /\ proc.entry = "ParseRun" /\ proc.tree = "ErrReturn"
  /\ proc.cmds["root"].ErrorHandling = ReturnOnError
  /\ proc.argv = <<"-z">>
  /\ proc.result = Returned(NoCmd, <<>>, Errorf2(Err, Errorf2(ErrFlag,
                                errorsNew("flag provided but not defined"))))

\* C4: under root policy ExitOnError, when the resolved leaf's handler returns
\* a non-nil error, ParseRun logs it and exits with code 1; the error is not
\* returned to the caller.
C4_HandlerErrorExits ==
  (proc.pc = "done" /\ proc.entry = "ParseRun"
     /\ proc.cmds["root"].ErrorHandling = ExitOnError /\ proc.ran # <<>>
     /\ RunnerCall(proc.cmds[proc.ran[1].cmd].Runner, proc.ran[1].args) # nil) =>
    /\ proc.result.kind = "exit"
    /\ proc.result.code = 1

\* every flag set the dispatch has parsed returns its errors to the caller
FlagSetsReturn(p) ==
  \A i \in 1..Len(p.visited) :
    p.cmds[p.visited[i].cmd].Flags.errorHandling = ContinueOnError

\* C5: under root policy ExitOnError, with flag sets that return their
\* errors, a dispatch that fails with a flag-error exits with code 2 and one
\* that fails with a command-error exits with code 3; no error value is
\* returned to the caller, and the exit is made by handleError, after parse
\* has returned.
C5_ExitCodes ==
  (proc.pc = "done" /\ proc.cmds["root"].ErrorHandling = ExitOnError
     /\ FlagSetsReturn(proc)) =>
    /\ proc.result.kind \in {"exit", "return"}
    /\ proc.result.kind = "exit" =>
         /\ proc.result.at = "handleError"
         /\ proc.ran = <<>>
         /\ \/ IsFlagError(proc.result.err) /\ proc.result.code = 2
                 /\ Cause(proc.result.err) \in FlagCauses
            \/ IsCommandError(proc.result.err) /\ proc.result.code = 3
                 /\ Cause(proc.result.err) \in CommandCauses
    /\ proc.result.kind = "return" =>
         /\ ~errorsIs(proc.result.err, Err)
         /\ IF proc.entry = "Parse"
            THEN proc.result.leaf # NoCmd /\ proc.result.err = nil
            ELSE Len(proc.ran) = 1

C5_Witness ==
  /\ proc.pc = "done" /\ proc.cmds["root"].ErrorHandling = ExitOnError
  /\ FlagSetsReturn(proc) /\ proc.tree = "ErrReturn" /\ proc.argv = <<"sub", "-z">>
  /\ proc.result.kind = "exit" /\ proc.result.code = 2

\* the two trees differ at most in the ErrorHandling of nodes other than the root
DifferOnlyInInnerErrorHandling(p, q) ==
  /\ p.cmds["root"].ErrorHandling = q.cmds["root"].ErrorHandling
  /\ \A n \in Nodes : [p.cmds[n] EXCEPT !.ErrorHandling = 0] = [q.cmds[n] EXCEPT !.ErrorHandling = 0]

\* C6: the command-level policy is the root's: two trees that differ only in
\* the ErrorHandling of nodes other than the root, dispatched on the same
\* arguments, end with the same result (returned values, exit code or panic).
C6_InnerErrorHandlingIgnored ==
  DifferOnlyInInnerErrorHandling(proc, twin) =>
    /\ proc.pc = twin.pc
    /\ proc.result = twin.result

C6_Witness ==
  /\ proc.pc = "done" /\ twin.pc = "done"
  /\ proc.tree = "CmdNoFlags" /\ proc.argv = <<"sub1">> /\ proc.entry = "ParseRun"
  /\ proc.cmds["root"].ErrorHandling = ReturnOnError
  /\ proc.cmds["n2"].ErrorHandling = ReturnOnError
  /\ twin.cmds["n2"].ErrorHandling = PanicOnError
  /\ proc.result.kind = "return" /\ IsCommandError(proc.result.err)
  /\ twin.result = proc.result

\* the flag set of the i-th node visited, with a returning policy, was handed
\* arguments that begin with a flag it does not define
RejectsLeadingFlag(p, i) ==
  LET v == p.visited[i] IN
  /\ p.cmds[v.cmd].Flags.errorHandling = ContinueOnError
  /\ v.handed # <<>>
  /\ Lex(v.handed[1]).syntax = "flag"
  /\ Lex(v.handed[1]).name \notin DOMAIN p.cmds[v.cmd].Flags.formal

\* C7: when a node's flag set rejects a leading flag token it does not define,
\* parse fails with a flag-error before any child lookup, whatever follows:
\* that node is the last one visited, no handler runs, and the error is a
\* flag-error, never a command-error.
C7_UnknownFlagFailsFirst ==
  \A i \in 1..Len(proc.visited) :
    RejectsLeadingFlag(proc, i) =>
      /\ i = Len(proc.visited)
      /\ proc.pc # "parse"
      /\ proc.ran = <<>>
      /\ proc.pc \in {"Parse", "ParseRun"} =>
           /\ errorsIs(proc.err, ErrFlag) /\ ~errorsIs(proc.err, ErrCmd)
           /\ Cause(proc.err) \in FlagCauses /\ proc.leafCmd = NoCmd
      /\ proc.pc = "done" => (IsFlagError(proc.result.err) /\ proc.result.leaf = NoCmd)

C7_Witness ==
  /\ proc.pc = "done" /\ proc.tree = "Deep" /\ proc.argv = <<"req", "-c", "get">>
  /\ Len(proc.visited) = 2 /\ RejectsLeadingFlag(proc, 2)
  /\ IsFlagError(proc.result.err)

\* C8: every node the descent enters other than the root, whatever its name,
\* has its selector token removed exactly once, and the root has none
\* removed: the root's flag set is handed the arguments as given, and every
\* other node's flag set is handed what its parent's flag set left, less the
\* selector at its head.
C8_SelectorRemovedOnce ==
  \A i \in 1..Len(proc.visited) :
    proc.visited[i].handed =
      IF i = 1 THEN proc.argv ELSE Tail(proc.visited[i - 1].left)

\* a token of a names flag f
Occurs(f, a) == \E i \in 1..Len(a) : Lex(a[i]).syntax = "flag" /\ Lex(a[i]).name = f

\* C9 as stated: after every dispatch, also one that follows earlier
\* dispatches on the same tree, each flag of a visited node that was parsed
\* from the arguments holds the parsed value, and each flag of a visited node
\* that does not occur in the arguments holds its default value.
C9_FlagsParsedOrDefault ==
  proc.pc = "done" =>
    \A i \in 1..Len(proc.visited) :
      LET n == proc.visited[i].cmd
          fs == proc.cmds[n].Flags
      IN
      \A f \in DOMAIN fs.formal :
        /\ f \in DOMAIN proc.seen[n] => fs.value[f] = proc.seen[n][f]
        /\ ~Occurs(f, proc.argv) => fs.value[f] = fs.formal[f].def

\* C9 as amended: after a dispatch each flag of a visited node that was
\* parsed from the arguments holds the parsed value, and each flag of a
\* visited node that does not occur in the arguments holds the value it had
\* before the dispatch: its default after the first dispatch on the tree,
\* whatever earlier dispatches left after a later one.
C9_FlagsParsedOrKept ==
  proc.pc = "done" =>
    \A i \in 1..Len(proc.visited) :
      LET n == proc.visited[i].cmd
          fs == proc.cmds[n].Flags
      IN
      \A f \in DOMAIN fs.formal :
        /\ f \in DOMAIN proc.seen[n] => fs.value[f] = proc.seen[n][f]
        /\ (~Occurs(f, proc.argv) /\ f \in DOMAIN proc.pre[n]) => fs.value[f] = proc.pre[n][f]
        /\ (~Occurs(f, proc.argv) /\ proc.first) => fs.value[f] = fs.formal[f].def

C9_Witness ==
  /\ proc.pc = "done" /\ ~proc.first /\ proc.tree = "ArgsCmd"
  /\ proc.argv = <<"sub", "-d">>
  /\ Len(proc.visited) = 2
  /\ proc.pre["root"]["c"] = "true"
  /\ proc.cmds["root"].Flags.value["c"] = "true"
  /\ proc.cmds["n1"].Flags.value["d"] = "true"

IsChild(cmds, parent, c) ==
  \E i \in 1..Len(cmds[parent].Commands) : cmds[parent].Commands[i] = c

\* the number of levels below node n
RECURSIVE Height(_, _)
Height(cmds, n) ==
  IF cmds[n].Commands = <<>> THEN 0
  ELSE LET hs == {Height(cmds, cmds[n].Commands[i]) : i \in 1..Len(cmds[n].Commands)} IN
       1 + CHOOSE h \in hs : \A g \in hs : g <= h

\* C10: parse terminates.  Each iteration of its loop returns a leaf, returns
\* an error (or ends the process, when the flag set's own policy says so), or
\* moves from the current node to one of its children, strictly lower in the
\* tree; a dispatch makes at most depth + 1 iterations and visits no node,
\* and parses no flag set, twice.
C10_ParseTerminates ==
  [][proc.pc = "parse" =>
       /\ \/ /\ proc'.pc = "Parse"
             /\ \/ proc'.err # nil /\ proc'.leafCmd = NoCmd
                \/ proc'.err = nil /\ proc'.leafCmd = proc.cmd
                     /\ proc.cmds[proc.cmd].Commands = <<>>
          \/ proc'.pc = "done" /\ proc'.result.at = "flag.Parse"
          \/ /\ proc'.pc = "parse"
             /\ IsChild(proc.cmds, proc.cmd, proc'.cmd)
             /\ Height(proc.cmds, proc'.cmd) < Height(proc.cmds, proc.cmd)
       /\ Len(proc'.visited) = Len(proc.visited) + 1
       /\ proc'.visited[Len(proc'.visited)].cmd = proc.cmd
       /\ Len(proc'.visited) <= Height(proc.cmds, "root") + 1
       /\ \A i, j \in 1..Len(proc'.visited) :
            i # j => proc'.visited[i].cmd # proc'.visited[j].cmd]_vars

C10_Witness ==
  /\ proc.tree = "Deep" /\ proc.pc = "Parse" /\ proc.leafCmd = "n3" /\ proc.err = nil
  /\ Len(proc.visited) = Height(proc.cmds, "root") + 1
  /\ proc.visited[1].cmd = "root" /\ proc.visited[2].cmd = "n1" /\ proc.visited[3].cmd = "n3"

====
